---------------------------- MODULE Spec2Model ----------------------------
(***************************************************************************)
(* A model of the paragraph-border marshalling layer of python-docx:       *)
(*   - docx/oxml/simpletypes.py : the simple-type descriptors              *)
(*   - docx/oxml/text/border.py : CT_BorderSide, CT_PBdr                   *)
(*   - docx/text/border.py      : BorderSide, ParagraphBorder              *)
(*                                                                         *)
(* Representation.                                                         *)
(*   Python values are tagged records:                                     *)
(*     [t |-> "none"]                         None                         *)
(*     [t |-> "bool", b |-> TRUE]             True / False                 *)
(*     [t |-> "int", neg, digits]             an int of any size (also a   *)
(*                                            Length, which is an int)     *)
(*     [t |-> "str", s |-> "dashed"]          a str                        *)
(*     [t |-> "rgb", r, g, b]                 an RGBColor                  *)
(*   Attribute text is a TLA+ string for the string and boolean            *)
(*   descriptors ("dashed", "1") and a sequence of one-character strings   *)
(*   for the numeric and colour descriptors (<<"1","4","4","0">>), whose   *)
(*   code looks inside the text.                                           *)
(*   The result of a call is Ok(v) or Raise(e).                            *)
(***************************************************************************)
EXTENDS Integers, Sequences, FiniteSets, TLC

VARIABLES
    tree,     \* tree[p]: the children of paragraph p that the facade touches
    before,   \* the tree as it was when the last facade call was made
    cache,    \* cache[p][s]: the _top/_left/_bottom/_right slot of p's ParagraphBorder
    copied,   \* copied[p][s]: the side that was last assigned to side s of p
    last,     \* the facade call that was made last, and its outcome
    nops,     \* the number of facade calls made so far
    tcall     \* the simple-type call under examination, and its results

vars == <<tree, before, cache, copied, last, nops, tcall>>

---------------------------------------------------------------------------
(* Results of calls *)

Ok(v) == [exc |-> "none", v |-> v]

Raise(e) == [exc |-> e]

IsOk(r) == r.exc = "none"

\* F(v), with v evaluated once
Bind(v, F(_)) == CHOOSE y \in {F(x) : x \in {v}} : TRUE

---------------------------------------------------------------------------
(* Python values *)

None == [t |-> "none"]

PyBool(b) == [t |-> "bool", b |-> b]

PyStr(s) == [t |-> "str", s |-> s]

RGBColor(r, g, b) == [t |-> "rgb", r |-> r, g |-> g, b |-> b]

\* An int as a sign and its decimal digits, most significant first; zero is
\* <<0>> and never negative.
Big(neg, digits) == [t |-> "int", neg |-> neg, digits |-> digits]

RECURSIVE NatDigits(_)
NatDigits(n) ==
    IF n < 10 THEN <<n>> ELSE Append(NatDigits(n \div 10), n % 10)

PyInt(n) == IF n < 0 THEN Big(TRUE, NatDigits(-n)) ELSE Big(FALSE, NatDigits(n))

RECURSIVE DigitsNat(_)
DigitsNat(d) ==
    IF d = <<>> THEN 0
    ELSE 10 * DigitsNat(SubSeq(d, 1, Len(d) - 1)) + d[Len(d)]

\* The machine value of an int the model computes with (a length); the
\* model does arithmetic only on ints of at most nine digits.
IntOf(v) == IF v.neg THEN -DigitsNat(v.digits) ELSE DigitsNat(v.digits)

MagLt(a, b) ==
    \/ Len(a) < Len(b)
    \/ /\ Len(a) = Len(b)
       /\ \E i \in 1..Len(a) :
            /\ a[i] < b[i]
            /\ \A j \in 1..(i - 1) : a[j] = b[j]

\* x < y on ints
IntLt(x, y) ==
    IF x.neg /\ ~y.neg THEN TRUE
    ELSE IF ~x.neg /\ y.neg THEN FALSE
    ELSE IF x.neg THEN MagLt(y.digits, x.digits)
    ELSE MagLt(x.digits, y.digits)

RECURSIVE MagInc(_)
MagInc(d) ==
    IF d = <<>> THEN <<1>>
    ELSE IF d[Len(d)] = 9 THEN Append(MagInc(SubSeq(d, 1, Len(d) - 1)), 0)
    ELSE Append(SubSeq(d, 1, Len(d) - 1), d[Len(d)] + 1)

RECURSIVE MagDec(_)
MagDec(d) ==
    IF d[Len(d)] = 0 THEN Append(MagDec(SubSeq(d, 1, Len(d) - 1)), 9)
    ELSE Append(SubSeq(d, 1, Len(d) - 1), d[Len(d)] - 1)

RECURSIVE StripZeros(_)
StripZeros(d) ==
    IF Len(d) > 1 /\ d[1] = 0 THEN StripZeros(Tail(d)) ELSE d

IntSucc(x) ==
    IF x.neg THEN
        LET m == StripZeros(MagDec(x.digits)) IN Big(m # <<0>>, m)
    ELSE Big(FALSE, MagInc(x.digits))

IntPred(x) ==
    IF x.neg THEN Big(TRUE, MagInc(x.digits))
    ELSE IF x.digits = <<0>> THEN Big(TRUE, <<1>>)
    ELSE Big(FALSE, StripZeros(MagDec(x.digits)))

\* Python's isinstance(value, int): a bool is an int.
IsInstanceInt(value) == value.t \in {"int", "bool"}

\* The int a value is when it is used as one (True is 1, False is 0).
AsInt(value) ==
    IF value.t = "bool" THEN (IF value.b THEN Big(FALSE, <<1>>) ELSE Big(FALSE, <<0>>))
    ELSE value

\* Python's ==
PyEq(a, b) ==
    IF IsInstanceInt(a) /\ IsInstanceInt(b) THEN AsInt(a) = AsInt(b)
    ELSE a = b

---------------------------------------------------------------------------
(* Text of numbers *)

DigitChars == <<"0", "1", "2", "3", "4", "5", "6", "7", "8", "9">>

IsDigitChar(c) == \E i \in 1..10 : DigitChars[i] = c

DigitOfChar(c) == (CHOOSE i \in 1..10 : DigitChars[i] = c) - 1

DigitsText(d) == [i \in 1..Len(d) |-> DigitChars[d[i] + 1]]

\* str(value) of an int or a bool
IntStr(value) ==
    IF value.t = "bool" THEN
        (IF value.b THEN <<"T", "r", "u", "e">> ELSE <<"F", "a", "l", "s", "e">>)
    ELSE IF value.neg THEN <<"-">> \o DigitsText(value.digits)
    ELSE DigitsText(value.digits)

\* int(str_value): an optional sign and decimal digits; anything else is a
\* ValueError.  (Surrounding white space and digit-group underscores, which
\* int() also takes, are not among the texts of the model.)
IntParse(text) ==
    LET signed == Len(text) > 0 /\ text[1] \in {"-", "+"}
        body   == IF signed THEN Tail(text) ELSE text
    IN  IF body = <<>> \/ \E i \in 1..Len(body) : ~IsDigitChar(body[i])
        THEN Raise("ValueError")
        ELSE LET m == StripZeros([i \in 1..Len(body) |-> DigitOfChar(body[i])])
             IN  Ok(Big(signed /\ text[1] = "-" /\ m # <<0>>, m))

Contains(text, c) == \E i \in 1..Len(text) : text[i] = c

---------------------------------------------------------------------------
(* docx.shared: Length and its units, RGBColor *)

\* int(a / b) for b > 0: the quotient truncated toward zero
TruncDiv(a, b) == IF a >= 0 THEN a \div b ELSE -((-a) \div b)

EMUS_PER_PT == 12700

EMUS_PER_TWIP == 635

EMUS_PER_MM == 36000

EMUS_PER_CM == 360000

\* Emu(n), Pt(n), Twips(n), EighthsOfPoint(n): the length in EMU
Emu(n) == n

Pt(points) == points * EMUS_PER_PT

\* Pt(n / 2.0)
PtOfHalfPoints(n) == TruncDiv(n * EMUS_PER_PT, 2)

Twips(n) == n * EMUS_PER_TWIP

EighthsOfPoint(n) == TruncDiv(n * EMUS_PER_PT, 8)

\* int(emu.pt * 2), int(emu.pt), emu.twips, emu.eighths_of_point
HalfPointsOf(emu) == TruncDiv(emu * 2, EMUS_PER_PT)

PointsOf(emu) == TruncDiv(emu, EMUS_PER_PT)

TwipsOf(emu) == TruncDiv(emu, EMUS_PER_TWIP)

EighthsOfPointOf(emu) == TruncDiv(emu * 8, EMUS_PER_PT)

HexChars ==
    <<"0", "1", "2", "3", "4", "5", "6", "7", "8", "9", "A", "B", "C", "D", "E", "F">>

LowerHexChars == <<"a", "b", "c", "d", "e", "f">>

IsHexChar(c) ==
    (\E i \in 1..16 : HexChars[i] = c) \/ (\E i \in 1..6 : LowerHexChars[i] = c)

HexOfChar(c) ==
    IF \E i \in 1..16 : HexChars[i] = c
    THEN (CHOOSE i \in 1..16 : HexChars[i] = c) - 1
    ELSE (CHOOSE i \in 1..6 : LowerHexChars[i] = c) + 9

\* '%02X' % n
Hex2(n) == <<HexChars[(n \div 16) + 1], HexChars[(n % 16) + 1]>>

\* RGBColor.from_string(text)
RGBFromString(text) ==
    IF Len(text) # 6 \/ \E i \in 1..Len(text) : ~IsHexChar(text[i])
    THEN Raise("ValueError")
    ELSE Ok(RGBColor(16 * HexOfChar(text[1]) + HexOfChar(text[2]),
                     16 * HexOfChar(text[3]) + HexOfChar(text[4]),
                     16 * HexOfChar(text[5]) + HexOfChar(text[6])))

---------------------------------------------------------------------------
(* docx/oxml/simpletypes.py *)

ST_BorderValue_members ==
    { "apples", "archedScallops", "babyPacifier", "babyRattle",
      "balloons3Colors", "balloonsHotAir", "basicBlackDashes",
      "basicBlackDots", "basicBlackSquares", "basicThinLines",
      "basicWhiteDashes", "basicWhiteDots", "basicWhiteSquares",
      "basicWideInline", "basicWideMidline", "basicWideOutline", "bats",
      "birds", "birdsFlight", "cabins", "cakeSlice", "candyCorn",
      "celticKnotwork", "certificateBanner", "chainLink", "champagneBottle",
      "checkedBarBlack", "checkedBarColor", "checkered", "christmasTree",
      "circlesLines", "circlesRectangles", "classicalWave", "clocks",
      "compass", "confetti", "confettiGrays", "confettiOutline",
      "confettiStreamers", "confettiWhite", "cornerTriangles",
      "couponCutoutDashes", "couponCutoutDots", "crazyMaze",
      "creaturesButterfly", "creaturesFish", "creaturesInsects",
      "creaturesLadyBug", "crossStitch", "cup", "dashDotStroked", "dashed",
      "dashSmallGap", "decoArch", "decoArchColor", "decoBlocks",
      "diamondsGray", "dotDash", "dotDotDash", "dotted", "double", "doubleD",
      "doubleDiamonds", "doubleWave", "earth1", "earth2",
      "eclipsingSquares1", "eclipsingSquares2", "eggsBlack", "fans", "film",
      "firecrackers", "flowersBlockPrint", "flowersDaisies",
      "flowersModern1", "flowersModern2", "flowersPansy", "flowersRedRose",
      "flowersRoses", "flowersTeacup", "flowersTiny", "gems",
      "gingerbreadMan", "gradient", "handmade1", "handmade2", "heartBalloon",
      "heartGray", "hearts", "heebieJeebies", "holly", "houseFunky",
      "hypnotic", "iceCreamCones", "inset", "lightBulb", "lightning1",
      "lightning2", "mapleLeaf", "mapleMuffins", "mapPins", "marquee",
      "marqueeToothed", "moons", "mosaic", "musicNotes", "nil", "none",
      "northwest", "outset", "ovals", "packages", "palmsBlack", "palmsColor",
      "paperClips", "papyrus", "partyFavor", "partyGlass", "pencils",
      "people", "peopleHats", "peopleWaving", "poinsettias", "postageStamp",
      "pumpkin1", "pushPinNote1", "pushPinNote2", "pyramids",
      "pyramidsAbove", "quadrants", "rings", "safari", "sawtooth",
      "sawtoothGray", "scaredCat", "seattle", "shadowedSquares", "shapes1",
      "shapes2", "sharksTeeth", "shorebirdTracks", "single", "skyrocket",
      "snowflakeFancy", "snowflakes", "sombrero", "southwest", "stars",
      "stars3d", "starsBlack", "starsShadowed", "starsTop", "sun",
      "swirligig", "thick", "thickThinLargeGap", "thickThinMediumGap",
      "thickThinSmallGap", "thinThickLargeGap", "thinThickMediumGap",
      "thinThickSmallGap", "thinThickThinLargeGap", "thinThickThinMediumGap",
      "thinThickThinSmallGap", "threeDEmboss", "threeDEngrave", "tornPaper",
      "tornPaperBlack", "trees", "triangle1", "triangle2", "triangleCircle1",
      "triangleCircle2", "triangleParty", "triangles", "tribal1", "tribal2",
      "tribal3", "tribal4", "tribal5", "tribal6", "triple", "twistedLines1",
      "twistedLines2", "vine", "wave", "waveline", "weavingAngles",
      "weavingBraid", "weavingRibbon", "weavingStrips", "whiteFlowers",
      "woodwork", "xIllusions", "zanyTriangles", "zigZag", "zigZagStitch" }

ST_HexColorAuto_members == {"auto"}

ST_Merge_members == {"continue", "restart"}

ST_VerticalAlignRun_members == {"baseline", "superscript", "subscript"}

ST_BrClear_valid_values == {"none", "left", "right", "all"}

ST_BrType_valid_values == {"page", "column", "textWrapping"}

ST_TblLayoutType_valid_values == {"fixed", "autofit"}

ST_TblWidth_valid_values == {"auto", "dxa", "nil", "pct"}

\* The descriptors, by what they inherit.
PlainStringTypes ==
    {"XsdAnyUri", "XsdId", "XsdString", "XsdToken", "ST_RelationshipId", "ST_String"}

EnumStringTypes ==
    {"ST_BorderValue", "ST_HexColorAuto", "ST_Merge", "ST_VerticalAlignRun",
     "ST_BrClear", "ST_BrType", "ST_TblLayoutType", "ST_TblWidth"}

BooleanTypes == {"XsdBoolean", "ST_OnOff"}

\* BaseIntType descriptors that keep BaseIntType's conversions
PlainIntTypes ==
    {"XsdInt", "XsdLong", "XsdUnsignedInt", "XsdUnsignedLong",
     "ST_CoordinateUnqualified", "ST_DecimalNumber", "ST_DrawingElementId"}

\* descriptors whose value is a length in EMU and whose text is in another unit
LengthTypes ==
    {"ST_HpsMeasure", "ST_PtsMeasure", "ST_TwipsMeasure", "ST_SignedTwipsMeasure",
     "ST_EighthsOfPointMeasure"}

\* descriptors whose value is a length in EMU and whose text is in EMU
CoordinateTypes == {"ST_Coordinate", "ST_PositiveCoordinate"}

IntTypes == PlainIntTypes \cup LengthTypes \cup CoordinateTypes

StringTypes == PlainStringTypes \cup EnumStringTypes

Descriptors == IntTypes \cup StringTypes \cup BooleanTypes \cup {"ST_HexColor"}

Members(cls) ==
    CASE cls = "ST_BorderValue" -> ST_BorderValue_members
      [] cls = "ST_HexColorAuto" -> ST_HexColorAuto_members
      [] cls = "ST_Merge" -> ST_Merge_members
      [] cls = "ST_VerticalAlignRun" -> ST_VerticalAlignRun_members
      [] cls = "ST_BrClear" -> ST_BrClear_valid_values
      [] cls = "ST_BrType" -> ST_BrType_valid_values
      [] cls = "ST_TblLayoutType" -> ST_TblLayoutType_valid_values
      [] cls = "ST_TblWidth" -> ST_TblWidth_valid_values

\* The bounds the validate of each BaseIntType descriptor passes on to
\* validate_int_in_range.
XsdInt_min == Big(TRUE, <<2, 1, 4, 7, 4, 8, 3, 6, 4, 8>>)

XsdInt_max == Big(FALSE, <<2, 1, 4, 7, 4, 8, 3, 6, 4, 7>>)

XsdLong_min == Big(TRUE, <<9, 2, 2, 3, 3, 7, 2, 0, 3, 6, 8, 5, 4, 7, 7, 5, 8, 0, 8>>)

XsdLong_max == Big(FALSE, <<9, 2, 2, 3, 3, 7, 2, 0, 3, 6, 8, 5, 4, 7, 7, 5, 8, 0, 7>>)

XsdUnsignedInt_max == Big(FALSE, <<4, 2, 9, 4, 9, 6, 7, 2, 9, 5>>)

XsdUnsignedLong_max ==
    Big(FALSE, <<1, 8, 4, 4, 6, 7, 4, 4, 0, 7, 3, 7, 0, 9, 5, 5, 1, 6, 1, 5>>)

ST_Coordinate_min == Big(TRUE, <<2, 7, 2, 7, 3, 0, 4, 2, 3, 2, 9, 6, 0, 0>>)

ST_Coordinate_max == Big(FALSE, <<2, 7, 2, 7, 3, 0, 4, 2, 3, 1, 6, 9, 0, 0>>)

Zero == Big(FALSE, <<0>>)

RangeOf(cls) ==
    CASE cls \in {"XsdInt", "ST_DecimalNumber", "ST_SignedTwipsMeasure"} ->
            [min |-> XsdInt_min, max |-> XsdInt_max]
      [] cls = "XsdLong" ->
            [min |-> XsdLong_min, max |-> XsdLong_max]
      [] cls \in {"XsdUnsignedInt", "ST_DrawingElementId"} ->
            [min |-> Zero, max |-> XsdUnsignedInt_max]
      [] cls \in {"XsdUnsignedLong", "ST_HpsMeasure", "ST_PtsMeasure",
                  "ST_TwipsMeasure", "ST_EighthsOfPointMeasure"} ->
            [min |-> Zero, max |-> XsdUnsignedLong_max]
      [] cls \in {"ST_Coordinate", "ST_CoordinateUnqualified"} ->
            [min |-> ST_Coordinate_min, max |-> ST_Coordinate_max]
      [] cls = "ST_PositiveCoordinate" ->
            [min |-> Zero, max |-> ST_Coordinate_max]

\* BaseSimpleType.validate_int: "ok" or the exception raised
validate_int(value) == IF IsInstanceInt(value) THEN "ok" ELSE "TypeError"

\* a faulty validate_int_in_range: max_inclusive itself is refused
validate_int_in_range_below_max(value, min_inclusive, max_inclusive) ==
    IF validate_int(value) # "ok" THEN validate_int(value)
    ELSE IF IntLt(AsInt(value), min_inclusive) \/ ~IntLt(AsInt(value), max_inclusive)
    THEN "ValueError"
    ELSE "ok"

\* BaseSimpleType.validate_int_in_range
validate_int_in_range(value, min_inclusive, max_inclusive) ==
    IF validate_int(value) # "ok" THEN validate_int(value)
    ELSE IF IntLt(AsInt(value), min_inclusive) \/ IntLt(max_inclusive, AsInt(value))
    THEN "ValueError"
    ELSE "ok"

\* BaseSimpleType.validate_string
validate_string(value) == IF value.t = "str" THEN "ok" ELSE "TypeError"

\* a faulty validate of the enumerations: any string passes
validate_enumeration_any_string(value, members) == validate_string(value)

\* BaseStringEnumerationType.validate, and the validate of ST_BrClear,
\* ST_BrType, ST_TblLayoutType and ST_TblWidth, which is the same test
\* against valid_values
validate_enumeration(value, members) ==
    IF validate_string(value) # "ok" THEN validate_string(value)
    ELSE IF value.s \notin members THEN "ValueError"
    ELSE "ok"

\* XsdBoolean.validate: value not in (True, False), which 1 and 0 pass
XsdBoolean_validate(value) ==
    IF IsInstanceInt(value) /\ AsInt(value) \in {Big(FALSE, <<1>>), Zero}
    THEN "ok" ELSE "TypeError"

\* ST_HexColor.validate
ST_HexColor_validate(value) == IF value.t = "rgb" THEN "ok" ELSE "ValueError"

\* cls.validate(value): "ok" or the exception raised
validate(cls, value) ==
    CASE cls \in IntTypes ->
            validate_int_in_range(value, RangeOf(cls).min, RangeOf(cls).max)
      [] cls \in PlainStringTypes -> validate_string(value)
      [] cls \in EnumStringTypes -> validate_enumeration(value, Members(cls))
      [] cls \in BooleanTypes -> XsdBoolean_validate(value)
      [] cls = "ST_HexColor" -> ST_HexColor_validate(value)


\* ST_UniversalMeasure.convert_from_xml: the multiplier of a unit
UnitMultiplier(units_part) ==
    CASE units_part = <<"m", "m">> -> EMUS_PER_MM
      [] units_part = <<"c", "m">> -> EMUS_PER_CM
      [] units_part = <<"i", "n">> -> 914400
      [] units_part = <<"p", "t">> -> EMUS_PER_PT
      [] units_part = <<"p", "c">> -> 152400
      [] units_part = <<"p", "i">> -> 152400
      [] OTHER -> 0

\* float(float_part), as a number of hundredths: an optional sign, digits,
\* and at most two decimals (the float literals of the model)
FloatParse(float_part) ==
    LET signed == Len(float_part) > 0 /\ float_part[1] \in {"-", "+"}
        body   == IF signed THEN Tail(float_part) ELSE float_part
        dots   == {i \in 1..Len(body) : body[i] = "."}
        dot    == IF dots = {} THEN Len(body) + 1 ELSE CHOOSE i \in dots : TRUE
        whole  == SubSeq(body, 1, dot - 1)
        frac   == SubSeq(body, dot + 1, Len(body))
        digs   == whole \o frac
        hund   == whole \o frac \o (IF Len(frac) = 0 THEN <<"0", "0">>
                                    ELSE IF Len(frac) = 1 THEN <<"0">> ELSE <<>>)
    IN  IF \/ Cardinality(dots) > 1
           \/ digs = <<>>
           \/ Len(frac) > 2
           \/ \E i \in 1..Len(digs) : ~IsDigitChar(digs[i])
        THEN Raise("ValueError")
        ELSE LET n == DigitsNat([i \in 1..Len(hund) |-> DigitOfChar(hund[i])])
             IN  Ok(IF signed /\ float_part[1] = "-" THEN -n ELSE n)

\* ST_UniversalMeasure.convert_from_xml
ST_UniversalMeasure_convert_from_xml(str_value) ==
    LET n          == Len(str_value)
        float_part == SubSeq(str_value, 1, n - 2)
        units_part == SubSeq(str_value, IF n > 2 THEN n - 1 ELSE 1, n)
        quantity   == FloatParse(float_part)
    IN  IF ~IsOk(quantity) THEN quantity
        ELSE IF UnitMultiplier(units_part) = 0 THEN Raise("KeyError")
        ELSE Ok(PyInt(Emu(quantity.v * (UnitMultiplier(units_part) \div 100))))

\* the letters whose presence sends a length text to ST_UniversalMeasure
UnitLetters(cls) ==
    IF cls \in {"ST_HpsMeasure", "ST_PtsMeasure"} THEN {"m", "n", "p"}
    ELSE IF cls = "ST_PositiveCoordinate" THEN {}
    ELSE {"i", "m", "p"}

\* the length, in EMU, of n of a length descriptor's own units
FromUnits(cls, n) ==
    CASE cls = "ST_HpsMeasure" -> PtOfHalfPoints(n)
      [] cls = "ST_PtsMeasure" -> Pt(n)
      [] cls \in {"ST_TwipsMeasure", "ST_SignedTwipsMeasure"} -> Twips(n)
      [] cls = "ST_EighthsOfPointMeasure" -> EighthsOfPoint(n)

\* the convert_from_xml of the length and coordinate descriptors
Length_convert_from_xml(cls, str_value) ==
    IF \E c \in UnitLetters(cls) : Contains(str_value, c)
    THEN ST_UniversalMeasure_convert_from_xml(str_value)
    ELSE LET n == IntParse(str_value)
         IN  IF ~IsOk(n) THEN n
             ELSE IF cls \in CoordinateTypes THEN n    \* Emu(int(str_value))
             ELSE Ok(PyInt(FromUnits(cls, IntOf(n.v))))

\* a faulty ST_HpsMeasure.convert_to_xml: the points, not twice the points
ST_HpsMeasure_convert_to_xml_points(value) ==
    IntStr(PyInt(PointsOf(Emu(IntOf(AsInt(value))))))

\* ST_HpsMeasure.convert_to_xml
ST_HpsMeasure_convert_to_xml(value) ==
    IntStr(PyInt(HalfPointsOf(Emu(IntOf(AsInt(value))))))

\* ST_PtsMeasure.convert_to_xml
ST_PtsMeasure_convert_to_xml(value) ==
    IntStr(PyInt(PointsOf(Emu(IntOf(AsInt(value))))))

\* ST_TwipsMeasure.convert_to_xml and ST_SignedTwipsMeasure.convert_to_xml
ST_TwipsMeasure_convert_to_xml(value) ==
    IntStr(PyInt(TwipsOf(Emu(IntOf(AsInt(value))))))

\* ST_EighthsOfPointMeasure.convert_to_xml
ST_EighthsOfPointMeasure_convert_to_xml(value) ==
    IntStr(PyInt(EighthsOfPointOf(Emu(IntOf(AsInt(value))))))

\* BaseIntType.convert_to_xml
BaseIntType_convert_to_xml(value) == IntStr(value)

\* BaseIntType.convert_from_xml
BaseIntType_convert_from_xml(str_value) == IntParse(str_value)

\* BaseStringType.convert_to_xml
BaseStringType_convert_to_xml(value) == value.s

\* BaseStringType.convert_from_xml
BaseStringType_convert_from_xml(str_value) == Ok(PyStr(str_value))

\* XsdBoolean.convert_to_xml: {True: '1', False: '0'}[value]
XsdBoolean_convert_to_xml(value) ==
    IF AsInt(value) = Big(FALSE, <<1>>) THEN "1" ELSE "0"

\* XsdBoolean.convert_from_xml
XsdBoolean_convert_from_xml(str_value) ==
    IF str_value \notin {"1", "0", "true", "false"} THEN Raise("InvalidXmlError")
    ELSE Ok(PyBool(str_value \in {"1", "true"}))

\* ST_OnOff.convert_from_xml
ST_OnOff_convert_from_xml(str_value) ==
    IF str_value \notin {"1", "0", "true", "false", "on", "off"}
    THEN Raise("InvalidXmlError")
    ELSE Ok(PyBool(str_value \in {"1", "true", "on"}))

\* ST_HexColor.convert_to_xml
ST_HexColor_convert_to_xml(value) == Hex2(value.r) \o Hex2(value.g) \o Hex2(value.b)

\* ST_HexColor.convert_from_xml
ST_HexColor_convert_from_xml(str_value) ==
    IF str_value = <<"a", "u", "t", "o">> THEN Ok(PyStr("auto"))
    ELSE RGBFromString(str_value)

\* cls.convert_to_xml(value), for a value that passed cls.validate
convert_to_xml(cls, value) ==
    CASE cls = "ST_HpsMeasure" -> ST_HpsMeasure_convert_to_xml(value)
      [] cls = "ST_PtsMeasure" -> ST_PtsMeasure_convert_to_xml(value)
      [] cls \in {"ST_TwipsMeasure", "ST_SignedTwipsMeasure"} ->
            ST_TwipsMeasure_convert_to_xml(value)
      [] cls = "ST_EighthsOfPointMeasure" ->
            ST_EighthsOfPointMeasure_convert_to_xml(value)
      [] cls \in PlainIntTypes \cup CoordinateTypes -> BaseIntType_convert_to_xml(value)
      [] cls \in StringTypes -> BaseStringType_convert_to_xml(value)
      [] cls \in BooleanTypes -> XsdBoolean_convert_to_xml(value)
      [] cls = "ST_HexColor" -> ST_HexColor_convert_to_xml(value)

\* cls.convert_from_xml(str_value)
convert_from_xml(cls, str_value) ==
    CASE cls \in LengthTypes \cup CoordinateTypes ->
            Length_convert_from_xml(cls, str_value)
      [] cls \in PlainIntTypes -> BaseIntType_convert_from_xml(str_value)
      [] cls \in StringTypes -> BaseStringType_convert_from_xml(str_value)
      [] cls = "XsdBoolean" -> XsdBoolean_convert_from_xml(str_value)
      [] cls = "ST_OnOff" -> ST_OnOff_convert_from_xml(str_value)
      [] cls = "ST_HexColor" -> ST_HexColor_convert_from_xml(str_value)

\* BaseSimpleType.from_xml
from_xml(cls, str_value) == convert_from_xml(cls, str_value)

\* BaseSimpleType.to_xml: Ok(text), or the exception validate raised
to_xml(cls, value) ==
    Bind(validate(cls, value), LAMBDA valid :
        IF valid # "ok" THEN Raise(valid) ELSE Ok(convert_to_xml(cls, value)))

---------------------------------------------------------------------------
(* The simple-type calls: validate, to_xml and from_xml applied to one     *)
(* descriptor and one value.                                               *)

\* how many of a length descriptor's units the length inputs span
MaxUnits == 3

\* lengths in EMU on and beside the whole numbers of each unit
LengthInputs ==
    {PyInt(n) : n \in
        {k * u + d : k \in 0..MaxUnits, u \in {635, 3175, 6350, 12700}, d \in {-1, 0, 1}}
        \cup {914400}}

\* values no descriptor of the family takes
OtherInputs(cls) ==
    {None}
    \cup (IF cls \in StringTypes THEN {PyInt(7)} ELSE {PyStr("12")})

BoundaryInputs(cls) ==
    LET r == RangeOf(cls)
    IN  {IntPred(r.min), r.min, IntSucc(r.min), IntPred(r.max), r.max, IntSucc(r.max)}

StringInputs(cls) ==
    IF cls \in EnumStringTypes
    THEN {PyStr(s) : s \in Members(cls) \cup {"Dashed", "DASHED", "bogus", "", "Auto"}}
    ELSE {PyStr(s) : s \in {"", "rId1", "a b", "dashed"}}

ColorInputs ==
    {RGBColor(0, 0, 0), RGBColor(255, 0, 0), RGBColor(18, 171, 239),
     RGBColor(255, 255, 255), PyStr("auto"), PyStr("FF0000")}

BoolInputs == {PyBool(TRUE), PyBool(FALSE), PyInt(0), PyInt(1), PyInt(2), PyInt(-1)}

Inputs(cls) ==
    OtherInputs(cls) \cup
    (CASE cls \in LengthTypes ->
            LengthInputs \cup {IntPred(RangeOf(cls).min), IntSucc(RangeOf(cls).max)}
                         \cup {PyBool(TRUE), PyBool(FALSE)}
       [] cls \in PlainIntTypes \cup CoordinateTypes ->
            BoundaryInputs(cls) \cup LengthInputs \cup {PyBool(TRUE), PyBool(FALSE)}
       [] cls \in StringTypes -> StringInputs(cls)
       [] cls \in BooleanTypes -> BoolInputs
       [] cls = "ST_HexColor" -> ColorInputs)

Unset == Raise("unset")

NoCall == [phase |-> "idle", cls |-> "", value |-> None, valid |-> "",
           xml |-> Unset, back |-> Unset]

\* cls.validate(value)
TValidate ==
    /\ tcall.phase = "input"
    /\ tcall' = [tcall EXCEPT !.phase = "validated",
                              !.valid = validate(tcall.cls, tcall.value)]
    /\ UNCHANGED <<tree, before, cache, copied, last, nops>>

\* cls.to_xml(value)
TToXml ==
    /\ tcall.phase = "validated"
    /\ tcall' = [tcall EXCEPT !.phase = "rendered",
                              !.xml = to_xml(tcall.cls, tcall.value)]
    /\ UNCHANGED <<tree, before, cache, copied, last, nops>>

\* cls.from_xml(text), on the text to_xml returned
TFromXml ==
    /\ tcall.phase = "rendered"
    /\ IsOk(tcall.xml)
    /\ tcall' = [tcall EXCEPT !.phase = "parsed",
                              !.back = from_xml(tcall.cls, tcall.xml.v)]
    /\ UNCHANGED <<tree, before, cache, copied, last, nops>>



---------------------------------------------------------------------------
(* The element tree.  An element is its tag, its attributes (a function    *)
(* from qualified attribute name to text) and the sequence of its          *)
(* children.  Of a paragraph <w:p> the model keeps <w:pPr> and one run;    *)
(* of <w:pPr>, <w:pBdr> and <w:jc>; of <w:pBdr>, the four sides.           *)

Elm(tag, attrs, children) == [tag |-> tag, attrs |-> attrs, children |-> children]

NoAttrs == [a \in {} |-> ""]

SetAttr(attrs, name, text) ==
    [a \in DOMAIN attrs \cup {name} |-> IF a = name THEN text ELSE attrs[a]]

DelAttr(attrs, name) == [a \in DOMAIN attrs \ {name} |-> attrs[a]]

\* the index of the first child with the tag, 0 when there is none
FindChild(children, tag) ==
    IF \E i \in 1..Len(children) : children[i].tag = tag
    THEN CHOOSE i \in 1..Len(children) :
            /\ children[i].tag = tag
            /\ \A j \in 1..(i - 1) : children[j].tag # tag
    ELSE 0

InsertAt(children, i, elm) ==
    SubSeq(children, 1, i - 1) \o <<elm>> \o SubSeq(children, i, Len(children))

\* the index at which insert_element_before(elm, *successors) puts a new
\* child: before the first child whose tag is a successor, at the end when
\* there is none
InsertIndex(children, successors) ==
    IF \E i \in 1..Len(children) : children[i].tag \in successors
    THEN CHOOSE i \in 1..Len(children) :
            /\ children[i].tag \in successors
            /\ \A j \in 1..(i - 1) : children[j].tag \notin successors
    ELSE Len(children) + 1

\* get_or_add_<tag>() of a ZeroOrOne child: the children afterwards and
\* the index of the child
GetOrAddChild(children, tag, successors) ==
    IF FindChild(children, tag) # 0
    THEN [children |-> children, i |-> FindChild(children, tag)]
    ELSE [children |-> InsertAt(children, InsertIndex(children, successors),
                                Elm(tag, NoAttrs, <<>>)),
          i |-> InsertIndex(children, successors)]

\* CT_PBdr._tag_seq
CT_PBdr_tag_seq == <<"w:top", "w:left", "w:bottom", "w:right">>

SideNames == {"top", "left", "bottom", "right"}

SideTag(side) == "w:" \o side

TagIndex(tag) == CHOOSE i \in 1..4 : CT_PBdr_tag_seq[i] = tag

\* faulty successors: the whole of _tag_seq for every child
CT_PBdr_successors_whole_seq(tag) == {CT_PBdr_tag_seq[i] : i \in 1..4}

\* the successors CT_PBdr declares for each of its ZeroOrOne children:
\* _tag_seq[1:], _tag_seq[2:], _tag_seq[3:], _tag_seq[4:]
CT_PBdr_successors(tag) ==
    {CT_PBdr_tag_seq[i] : i \in (TagIndex(tag) + 1)..4}

\* the children of <w:pPr> that follow <w:pBdr>, and those of <w:p> that
\* follow <w:pPr>, among the ones the model keeps
CT_PPr_pBdr_successors == {"w:jc"}

CT_P_pPr_successors == {"w:r"}

\* CT_BorderSide: the descriptor of each attribute, and whether it is a
\* RequiredAttribute
CT_BorderSide_attr(prop) ==
    CASE prop = "val"    -> [name |-> "w:val", cls |-> "ST_BorderValue", required |-> TRUE]
      [] prop = "sz"     -> [name |-> "w:sz", cls |-> "ST_EighthsOfPointMeasure",
                             required |-> TRUE]
      [] prop = "space"  -> [name |-> "w:space", cls |-> "ST_PtsMeasure", required |-> TRUE]
      [] prop = "color"  -> [name |-> "w:color", cls |-> "ST_HexColor", required |-> TRUE]
      [] prop = "shadow" -> [name |-> "w:shadow", cls |-> "XsdBoolean", required |-> FALSE]

\* the properties, in the order the side setters of ParagraphBorder copy them
Props == <<"val", "sz", "space", "color", "shadow">>

RequiredProps == {"val", "sz", "space", "color"}

\* the getter of a RequiredAttribute or OptionalAttribute of element elm
AttrGet(elm, decl) ==
    IF decl.name \notin DOMAIN elm.attrs
    THEN (IF decl.required THEN Raise("InvalidXmlError") ELSE Ok(None))
    ELSE from_xml(decl.cls, elm.attrs[decl.name])

\* the setter of a RequiredAttribute or OptionalAttribute: the element
\* afterwards, and Ok(None) or the exception raised
AttrSet(elm, decl, value) ==
    IF ~decl.required /\ value = None
    THEN [elm |-> [elm EXCEPT !.attrs = DelAttr(elm.attrs, decl.name)], ret |-> Ok(None)]
    ELSE Bind(to_xml(decl.cls, value), LAMBDA str_value :
            IF ~IsOk(str_value) THEN [elm |-> elm, ret |-> str_value]
            ELSE [elm |-> [elm EXCEPT !.attrs = SetAttr(elm.attrs, decl.name, str_value.v)],
                  ret |-> Ok(None)])

---------------------------------------------------------------------------
(* docx/text/border.py: BorderSide.  A BorderSide proxy is the paragraph   *)
(* element it wraps and its side name; el is the paragraph's element.      *)
(* A side element is referred to by the indices of <w:pPr>, <w:pBdr> and   *)
(* the side on the way to it; <<>> is None.                                *)

SideElm(el, ref) == el.children[ref[1]].children[ref[2]].children[ref[3]]

PutSide(el, ref, elm) ==
    [el EXCEPT !.children[ref[1]].children[ref[2]].children[ref[3]] = elm]

\* a faulty _get_or_add_side_element: it makes a new <w:pBdr> whether or not
\* there is one
get_or_add_side_element_new_pBdr(el, side) ==
    Bind(GetOrAddChild(el.children, "w:pPr", CT_P_pPr_successors), LAMBDA a :
    Bind(GetOrAddChild(<<>>, SideTag(side), CT_PBdr_successors(SideTag(side))), LAMBDA c :
        [el  |-> [el EXCEPT !.children =
                    [a.children EXCEPT ![a.i].children =
                        InsertAt(a.children[a.i].children, 1,
                                 Elm("w:pBdr", NoAttrs, c.children))]],
         ref |-> <<a.i, 1, c.i>>]))

\* a faulty _get_or_add_side_element: it adds a side element whether or not
\* the side has one
get_or_add_side_element_appending(el, side) ==
    Bind(GetOrAddChild(el.children, "w:pPr", CT_P_pPr_successors), LAMBDA a :
    Bind(GetOrAddChild(a.children[a.i].children, "w:pBdr", CT_PPr_pBdr_successors),
         LAMBDA b :
    Bind(InsertIndex(b.children[b.i].children, CT_PBdr_successors(SideTag(side))),
         LAMBDA k :
        [el  |-> [el EXCEPT !.children =
                    [a.children EXCEPT ![a.i].children =
                        [b.children EXCEPT ![b.i].children =
                            InsertAt(@, k, Elm(SideTag(side), NoAttrs, <<>>))]]],
         ref |-> <<a.i, b.i, k>>])))

\* BorderSide._get_or_add_side_element: the paragraph afterwards and the side
get_or_add_side_element(el, side) ==
    Bind(GetOrAddChild(el.children, "w:pPr", CT_P_pPr_successors), LAMBDA a :
    Bind(GetOrAddChild(a.children[a.i].children, "w:pBdr", CT_PPr_pBdr_successors),
         LAMBDA b :
    Bind(GetOrAddChild(b.children[b.i].children, SideTag(side),
                       CT_PBdr_successors(SideTag(side))), LAMBDA c :
        [el  |-> [el EXCEPT !.children =
                    [a.children EXCEPT ![a.i].children =
                        [b.children EXCEPT ![b.i].children = c.children]]],
         ref |-> <<a.i, b.i, c.i>>])))

\* a faulty _get_side_element: it gets or adds
get_side_element_adding(el, side) == get_or_add_side_element(el, side)

\* BorderSide._get_side_element: the paragraph afterwards and the side
get_side_element(el, side) ==
    LET i == FindChild(el.children, "w:pPr")
        j == FindChild(el.children[i].children, "w:pBdr")
        k == FindChild(el.children[i].children[j].children, SideTag(side))
    IN  IF i = 0 THEN [el |-> el, ref |-> <<>>]
        ELSE IF j = 0 THEN [el |-> el, ref |-> <<>>]
        ELSE IF k = 0 THEN [el |-> el, ref |-> <<>>]
        ELSE [el |-> el, ref |-> <<i, j, k>>]

\* a faulty getter: a shadow that is not set reads False
BorderSide_get_shadow_as_bool(el, side, prop) ==
    Bind(get_side_element(el, side), LAMBDA g :
        [el  |-> g.el,
         ret |-> IF g.ref = <<>> THEN Ok(None)
                 ELSE IF prop = "shadow" /\ "w:shadow" \notin DOMAIN SideElm(g.el, g.ref).attrs
                 THEN Ok(PyBool(FALSE))
                 ELSE AttrGet(SideElm(g.el, g.ref), CT_BorderSide_attr(prop))])

\* the getter of BorderSide.val, .sz, .space, .color and .shadow
BorderSide_get(el, side, prop) ==
    Bind(get_side_element(el, side), LAMBDA g :
        [el  |-> g.el,
         ret |-> IF g.ref = <<>> THEN Ok(None)
                 ELSE AttrGet(SideElm(g.el, g.ref), CT_BorderSide_attr(prop))])

\* a faulty setter: it writes to the first child of <w:pBdr>, whichever
\* side the proxy is of
BorderSide_set_first_side(el, side, prop, value) ==
    Bind(get_or_add_side_element(el, side), LAMBDA g :
    Bind(AttrSet(SideElm(g.el, <<g.ref[1], g.ref[2], 1>>), CT_BorderSide_attr(prop), value),
         LAMBDA w :
        [el |-> PutSide(g.el, <<g.ref[1], g.ref[2], 1>>, w.elm), ret |-> w.ret]))

\* the setter of BorderSide.val, .sz, .space, .color and .shadow
BorderSide_set(el, side, prop, value) ==
    Bind(get_or_add_side_element(el, side), LAMBDA g :
    Bind(AttrSet(SideElm(g.el, g.ref), CT_BorderSide_attr(prop), value), LAMBDA w :
        [el |-> PutSide(g.el, g.ref, w.elm), ret |-> w.ret]))

---------------------------------------------------------------------------
(* docx/text/border.py: ParagraphBorder *)

Proxy(p, side) == [t |-> "proxy", p |-> p, side |-> side]

\* a faulty getter of ParagraphBorder: it looks the side up every time
ParagraphBorder_get_uncached(el, slot, side) ==
    IF get_side_element(el, side).ref = <<>>
    THEN [slot |-> FALSE, found |-> FALSE]
    ELSE [slot |-> TRUE, found |-> TRUE]

\* the getter of ParagraphBorder.top, .left, .bottom and .right: the slot
\* (_top, ...) afterwards, and whether a proxy is returned rather than None
ParagraphBorder_get(el, slot, side) ==
    IF slot THEN [slot |-> TRUE, found |-> TRUE]
    ELSE LET i == FindChild(el.children, "w:pPr")
             j == FindChild(el.children[i].children, "w:pBdr")
             k == FindChild(el.children[i].children[j].children, SideTag(side))
         IN  IF i = 0 THEN [slot |-> FALSE, found |-> FALSE]
             ELSE IF j = 0 THEN [slot |-> FALSE, found |-> FALSE]
             ELSE IF k = 0 THEN [slot |-> FALSE, found |-> FALSE]
             ELSE [slot |-> TRUE, found |-> TRUE]

\* side.<prop> of the object assigned: a BorderSide proxy, or None, which
\* has no such attribute
SourceGet(T, src, prop) ==
    IF src = None THEN [tree |-> T, ret |-> Raise("AttributeError")]
    ELSE Bind(BorderSide_get(T[src.p], src.side, prop), LAMBDA g :
            [tree |-> [T EXCEPT ![src.p] = g.el], ret |-> g.ret])

\* one assignment of a side setter, top.<prop> = side.<prop>: the tree
\* afterwards, and Ok(None) or the exception raised
CopyProp(T, tgt, src, prop) ==
    Bind(SourceGet(T, src, prop), LAMBDA r :
        IF ~IsOk(r.ret) THEN r
        ELSE Bind(BorderSide_set(r.tree[tgt.p], tgt.side, prop, r.ret.v), LAMBDA w :
                [tree |-> [r.tree EXCEPT ![tgt.p] = w.el], ret |-> w.ret]))

\* the next assignment of a side setter, s being the outcome of those before
\* it: an exception ends them
ThenCopyProp(s, tgt, src, prop) ==
    IF ~IsOk(s.ret) THEN s ELSE CopyProp(s.tree, tgt, src, prop)

\* the assignments of a side setter:
\*   top.val = side.val; top.sz = side.sz; top.space = side.space;
\*   top.color = side.color; top.shadow = side.shadow
CopyProps(T, tgt, src) ==
    Bind(CopyProp(T, tgt, src, "val"), LAMBDA s1 :
    Bind(ThenCopyProp(s1, tgt, src, "sz"), LAMBDA s2 :
    Bind(ThenCopyProp(s2, tgt, src, "space"), LAMBDA s3 :
    Bind(ThenCopyProp(s3, tgt, src, "color"), LAMBDA s4 :
         ThenCopyProp(s4, tgt, src, "shadow")))))

\* whether the setter of the side makes its assignments when the side was
\* there already: those of left and right are inside "if self.left is None"
CopiesWhenFound(side) == side \in {"top", "bottom"}

\* the setter of ParagraphBorder.top, .left, .bottom and .right
ParagraphBorder_set(T, slot, tgt, src) ==
    Bind(ParagraphBorder_get(T[tgt.p], slot, tgt.side), LAMBDA g :
        IF ~g.found \/ CopiesWhenFound(tgt.side)
        THEN Bind(CopyProps(T, tgt, src), LAMBDA c :
                [tree |-> c.tree, slot |-> TRUE, ret |-> c.ret, copied |-> IsOk(c.ret)])
        ELSE [tree |-> T, slot |-> g.slot, ret |-> Ok(None), copied |-> FALSE])

---------------------------------------------------------------------------
(* The facade as a state machine: the calls a client makes on the          *)
(* ParagraphBorder of each paragraph and on BorderSide proxies.            *)

Pars == {"p1", "p2"}

\* how many facade calls a behaviour makes
MaxOps == 2

Attrs(val, sz, space, color) ==
    ("w:val" :> val) @@ ("w:sz" :> sz) @@ ("w:space" :> space) @@ ("w:color" :> color)

\* attribute sets of sides as a document holds them
AttrsA == Attrs("single", <<"4">>, <<"1">>, <<"F", "F", "0", "0", "0", "0">>)

AttrsB ==
    Attrs("dashed", <<"8">>, <<"0">>, <<"0", "0", "0", "0", "F", "F">>)
    @@ ("w:shadow" :> "true")

AttrsC == Attrs("double", <<"1", "2">>, <<"4">>, <<"a", "u", "t", "o">>) @@ ("w:shadow" :> "0")

Run == Elm("w:r", NoAttrs, <<>>)

Jc == Elm("w:jc", "w:val" :> "center", <<>>)

SideOf(side, attrs) == Elm(SideTag(side), attrs, <<>>)

\* a paragraph with a <w:pPr>, whose <w:pBdr> has the given sides
ParWithSides(sides) ==
    Elm("w:p", NoAttrs,
        <<Elm("w:pPr", NoAttrs, <<Elm("w:pBdr", NoAttrs, sides), Jc>>), Run>>)

ParNoPPr == Elm("w:p", NoAttrs, <<Run>>)

ParNoPBdr == Elm("w:p", NoAttrs, <<Elm("w:pPr", NoAttrs, <<Jc>>), Run>>)

\* the paragraphs a behaviour starts from: every side that exists has its
\* four required attributes, and the sides are in the order of the schema
InitPars1 ==
    {ParNoPPr, ParNoPBdr, ParWithSides(<<>>),
     ParWithSides(<<SideOf("top", AttrsA)>>),
     ParWithSides(<<SideOf("left", AttrsB), SideOf("right", AttrsA)>>),
     ParWithSides(<<SideOf("top", AttrsB), SideOf("left", AttrsA),
                    SideOf("bottom", AttrsC), SideOf("right", AttrsA)>>)}

\* the other paragraph: a source of sides
InitPar2 ==
    ParWithSides(<<SideOf("top", AttrsA), SideOf("left", AttrsB),
                   SideOf("bottom", AttrsB), SideOf("right", AttrsC)>>)

\* the values a client writes to each property: ones the descriptor takes
\* and ones it refuses
WriteValues(prop) ==
    CASE prop = "val"    -> {PyStr("dotted"), PyStr("Dotted"), PyInt(3)}
      [] prop = "sz"     -> {PyInt(19050), PyInt(-1)}
      [] prop = "space"  -> {PyInt(25400), None}
      [] prop = "color"  -> {RGBColor(0, 255, 0), PyStr("auto")}
      [] prop = "shadow" -> {PyBool(TRUE), None}

NoLast ==
    [op |-> "init", p |-> "", side |-> "", prop |-> "", value |-> None, src |-> None,
     ret |-> Ok(None), existed |-> FALSE]

\* whether the paragraph has an element for the side
HasSide(el, side) ==
    \E i \in 1..Len(el.children) :
        /\ el.children[i].tag = "w:pPr"
        /\ \E j \in 1..Len(el.children[i].children) :
            /\ el.children[i].children[j].tag = "w:pBdr"
            /\ \E k \in 1..Len(el.children[i].children[j].children) :
                el.children[i].children[j].children[k].tag = SideTag(side)

Init ==
    /\ tree \in {[p \in Pars |-> IF p = "p1" THEN a ELSE InitPar2] : a \in InitPars1}
    /\ before = tree
    /\ cache = [p \in Pars |-> [s \in SideNames |-> FALSE]]
    /\ copied = [p \in Pars |-> [s \in SideNames |-> None]]
    /\ last = NoLast
    /\ nops = 0
    /\ tcall = NoCall

\* border.<side>, read
ReadSide(p, side) ==
    /\ nops < MaxOps
    /\ \E g \in {ParagraphBorder_get(tree[p], cache[p][side], side)} :
        /\ cache' = [cache EXCEPT ![p][side] = g.slot]
        /\ last' = [NoLast EXCEPT !.op = "read_side", !.p = p, !.side = side,
                                  !.ret = Ok(IF g.found THEN Proxy(p, side) ELSE None),
                                  !.existed = HasSide(tree[p], side)]
        /\ nops' = nops + 1
        /\ before' = tree
        /\ UNCHANGED <<tree, copied, tcall>>

\* BorderSide(p, side).<prop>, read
ReadProp(p, side, prop) ==
    /\ nops < MaxOps
    /\ \E g \in {BorderSide_get(tree[p], side, prop)} :
        /\ tree' = [tree EXCEPT ![p] = g.el]
        /\ before' = tree
        /\ last' = [NoLast EXCEPT !.op = "read", !.p = p, !.side = side, !.prop = prop,
                                  !.ret = g.ret, !.existed = HasSide(tree[p], side)]
        /\ nops' = nops + 1
        /\ UNCHANGED <<cache, copied, tcall>>

\* BorderSide(p, side).<prop> = value
WriteProp(p, side, prop, value) ==
    /\ nops < MaxOps
    /\ \E w \in {BorderSide_set(tree[p], side, prop, value)} :
        /\ tree' = [tree EXCEPT ![p] = w.el]
        /\ before' = tree
        /\ last' = [NoLast EXCEPT !.op = "write", !.p = p, !.side = side, !.prop = prop,
                                  !.value = value, !.ret = w.ret,
                                  !.existed = HasSide(tree[p], side)]
        /\ nops' = nops + 1
        /\ UNCHANGED <<cache, copied, tcall>>

\* border.<side> = src, where src is a BorderSide proxy or None
AssignSide(p, side, src) ==
    /\ nops < MaxOps
    /\ \E a \in {ParagraphBorder_set(tree, cache[p][side], Proxy(p, side), src)} :
        /\ tree' = a.tree
        /\ before' = tree
        /\ cache' = [cache EXCEPT ![p][side] = a.slot]
        /\ copied' = IF a.copied THEN [copied EXCEPT ![p][side] = src] ELSE copied
        /\ last' = [NoLast EXCEPT !.op = "assign", !.p = p, !.side = side, !.src = src,
                                  !.ret = a.ret, !.existed = HasSide(tree[p], side)]
        /\ nops' = nops + 1
        /\ UNCHANGED tcall

Sources == {None} \cup {Proxy(p, side) : p \in Pars, side \in SideNames}

\* The client works on the border of paragraph p1, to which it assigns
\* sides of either paragraph; of paragraph p2 it writes the sizes.
Next ==
    \/ \E side \in SideNames : ReadSide("p1", side)
    \/ \E side \in SideNames, i \in 1..Len(Props) : ReadProp("p1", side, Props[i])
    \/ \E side \in SideNames, i \in 1..Len(Props) :
            \E value \in WriteValues(Props[i]) : WriteProp("p1", side, Props[i], value)
    \/ \E side \in SideNames, value \in WriteValues("sz") : WriteProp("p2", side, "sz", value)
    \/ \E side \in SideNames, src \in Sources : AssignSide("p1", side, src)

Spec == Init /\ [][Next]_vars

\* The sides of a <w:pBdr> created one after another, in every order.
InitEmpty ==
    /\ tree \in [Pars -> {ParNoPPr, ParNoPBdr, ParWithSides(<<>>)}]
    /\ before = tree
    /\ cache = [p \in Pars |-> [s \in SideNames |-> FALSE]]
    /\ copied = [p \in Pars |-> [s \in SideNames |-> None]]
    /\ last = NoLast
    /\ nops = 0
    /\ tcall = NoCall

\* BorderSide(p, side)._get_or_add_side_element()
CreateSide(p, side) ==
    \E g \in {get_or_add_side_element(tree[p], side)} :
        /\ tree' = [tree EXCEPT ![p] = g.el]
        /\ before' = tree
        /\ last' = [NoLast EXCEPT !.op = "create", !.p = p, !.side = side,
                                  !.existed = HasSide(tree[p], side)]
        /\ UNCHANGED <<cache, copied, nops, tcall>>

NextOrder == \E p \in Pars, side \in SideNames : CreateSide(p, side)

SpecOrder == InitEmpty /\ [][NextOrder]_vars

\* The simple-type calls alone.
InitTypes ==
    /\ tree = [p \in Pars |-> ParNoPPr]
    /\ before = tree
    /\ cache = [p \in Pars |-> [s \in SideNames |-> FALSE]]
    /\ copied = [p \in Pars |-> [s \in SideNames |-> None]]
    /\ last = NoLast
    /\ nops = 0
    /\ \E cls \in Descriptors : \E value \in Inputs(cls) :
            tcall = [phase |-> "input", cls |-> cls, value |-> value, valid |-> "",
                     xml |-> Unset, back |-> Unset]

NextTypes == TValidate \/ TToXml \/ TFromXml

SpecTypes == InitTypes /\ [][NextTypes]_vars

\* The simple types on text as a document holds it: from_xml, then validate
\* of the value it returned.

\* the text of an attribute of descriptor cls, well formed and not
RawTexts(cls) ==
    CASE cls \in LengthTypes ->
            {<<"0">>, <<"2", "4">>, <<"-", "5">>, <<"7", "2", "0">>, <<"1", "i", "n">>,
             <<"2", ".", "5", "4", "c", "m">>, <<"-", "1", "p", "t">>, <<"x">>, <<>>}
      [] cls \in PlainIntTypes \cup CoordinateTypes ->
            {<<"0">>, <<"1", "2">>, <<"-", "5">>, <<"+", "7">>, <<"0", "0", "9">>,
             <<"4", "2", "9", "4", "9", "6", "7", "2", "9", "6">>,
             <<"-", "2", "1", "4", "7", "4", "8", "3", "6", "4", "9">>,
             <<"T", "r", "u", "e">>, <<"1", ".", "5">>, <<>>}
      [] cls \in EnumStringTypes ->
            Members(cls) \cup {"Dashed", "bogus", ""}
      [] cls \in PlainStringTypes -> {"", "rId1", "a b"}
      [] cls \in BooleanTypes -> {"1", "0", "true", "false", "on", "off", "True", ""}
      [] cls = "ST_HexColor" ->
            {<<"a", "u", "t", "o">>, <<"F", "F", "0", "0", "0", "0">>,
             <<"1", "2", "a", "b", "E", "F">>, <<"A", "U", "T", "O">>,
             <<"F", "F", "0">>, <<"G", "G", "0", "0", "0", "0">>}

InitParse ==
    /\ tree = [p \in Pars |-> ParNoPPr]
    /\ before = tree
    /\ cache = [p \in Pars |-> [s \in SideNames |-> FALSE]]
    /\ copied = [p \in Pars |-> [s \in SideNames |-> None]]
    /\ last = NoLast
    /\ nops = 0
    /\ \E cls \in Descriptors : \E text \in RawTexts(cls) :
            tcall = [phase |-> "text", cls |-> cls, value |-> None, valid |-> "",
                     xml |-> Ok(text), back |-> Unset]

\* cls.from_xml(text), on the text of the document
TParse ==
    /\ tcall.phase = "text"
    /\ tcall' = [tcall EXCEPT !.phase = "read",
                              !.back = from_xml(tcall.cls, tcall.xml.v)]
    /\ UNCHANGED <<tree, before, cache, copied, last, nops>>

\* cls.validate(value), on the value from_xml returned
TValidateParsed ==
    /\ tcall.phase = "read"
    /\ IsOk(tcall.back)
    /\ tcall' = [tcall EXCEPT !.phase = "checked",
                              !.value = tcall.back.v,
                              !.valid = validate(tcall.cls, tcall.back.v)]
    /\ UNCHANGED <<tree, before, cache, copied, last, nops>>

NextParse == TParse \/ TValidateParsed

SpecParse == InitParse /\ [][NextParse]_vars

\* the children whose tag is not the given one
Without(children, tag) == SelectSeq(children, LAMBDA c : c.tag # tag)

\* The cache of a ParagraphBorder, while sides come and go by other paths.

\* the side's element is removed from <w:pBdr>, not through the facade
RemoveSide(p, side) ==
    /\ HasSide(tree[p], side)
    /\ \E ref \in {get_side_element(tree[p], side).ref} :
          tree' = [tree EXCEPT ![p].children[ref[1]].children[ref[2]].children =
                        Without(@, SideTag(side))]
    /\ before' = tree
    /\ last' = [NoLast EXCEPT !.op = "remove", !.p = p, !.side = side, !.existed = TRUE]
    /\ UNCHANGED <<cache, copied, nops, tcall>>

\* the sides the client of this specification reads, assigns, creates and
\* removes: one whose setter copies in every case, one whose setter does not
CacheSides == {"top", "left"}

NextCache ==
    \/ \E side \in CacheSides : ReadSide("p1", side)
    \/ \E side \in CacheSides, src \in {None, Proxy("p2", "top")} : AssignSide("p1", side, src)
    \/ \E side \in CacheSides : CreateSide("p1", side)
    \/ \E side \in CacheSides : RemoveSide("p1", side)

SpecCache == Init /\ [][NextCache]_vars

---------------------------------------------------------------------------
(* What the claims speak of.  The side the last call was made on is       *)
(* last.side of paragraph last.p; before is the tree that call found.     *)

\* what reading px.<prop> would give in tree T
ValueOf(T, px, prop) == BorderSide_get(T[px.p], px.side, prop).ret

\* the attributes of the side's element
SideAttrs(el, side) == SideElm(el, get_side_element(el, side).ref).attrs

\* the side has an element that carries the four required attributes
Populated(el, side) ==
    /\ HasSide(el, side)
    /\ \A prop \in RequiredProps : CT_BorderSide_attr(prop).name \in DOMAIN SideAttrs(el, side)

\* the <w:pPr> of the paragraph, which has one
PPrOf(el) == el.children[FindChild(el.children, "w:pPr")]

\* the children of <w:pBdr>, none when there is no <w:pBdr>
PBdrChildren(el) ==
    LET i == FindChild(el.children, "w:pPr")
        j == FindChild(el.children[i].children, "w:pBdr")
    IN  IF i = 0 THEN <<>>
        ELSE IF j = 0 THEN <<>>
        ELSE el.children[i].children[j].children

\* how many children have the tag
CountTag(children, tag) == Cardinality({i \in 1..Len(children) : children[i].tag = tag})

\* C1: border.X = src, for each of the four sides X, absent or present or
\* cached before the call, and src a side with its required attributes,
\* leaves val, sz, space, color and shadow of X equal to those of src.
C1_AssignCopiesEveryProp ==
    (last.op = "assign" /\ last.src # None /\ Populated(before[last.src.p], last.src.side))
        => \A i \in 1..Len(Props) :
              ValueOf(tree, Proxy(last.p, last.side), Props[i])
                = ValueOf(before, last.src, Props[i])

\* C2: writing one property of a side that is absent creates exactly one
\* side element, and <w:pPr> and <w:pBdr> only where they were missing; the
\* other children of <w:pBdr> keep their attributes and their order, nothing
\* else of the paragraph changes, and the other paragraph is left alone.
C2_WriteCreatesOneSide ==
    (last.op = "write" /\ ~HasSide(before[last.p], last.side))
        => /\ CountTag(PBdrChildren(tree[last.p]), SideTag(last.side)) = 1
           /\ Without(PBdrChildren(tree[last.p]), SideTag(last.side))
                = PBdrChildren(before[last.p])
           /\ CountTag(tree[last.p].children, "w:pPr") = 1
           /\ Without(tree[last.p].children, "w:pPr")
                = Without(before[last.p].children, "w:pPr")
           /\ CountTag(PPrOf(tree[last.p]).children, "w:pBdr") = 1
           /\ FindChild(before[last.p].children, "w:pPr") # 0
                => Without(PPrOf(tree[last.p]).children, "w:pBdr")
                     = Without(PPrOf(before[last.p]).children, "w:pBdr")
           /\ \A q \in Pars \ {last.p} : tree[q] = before[q]

\* a write has just created the bottom side between a left and a right one
C2_Witness ==
    /\ last.op = "write" /\ last.side = "bottom"
    /\ ~HasSide(before[last.p], "bottom")
    /\ HasSide(before[last.p], "left") /\ HasSide(before[last.p], "right")
    /\ HasSide(tree[last.p], "bottom")

\* C3: reading a side of ParagraphBorder or a property of BorderSide leaves
\* the tree as it was, and reading a property of a side that has no element
\* gives None.
C3_ReadsLeaveTree ==
    last.op \in {"read", "read_side"}
        => /\ tree = before
           /\ (last.op = "read" /\ ~HasSide(before[last.p], last.side))
                => last.ret = Ok(None)

\* a property of a side without an element has been read, after another read
C3_Witness ==
    /\ last.op = "read" /\ last.ret = Ok(None) /\ nops = 2
    /\ ~HasSide(before[last.p], last.side)
    /\ FindChild(before[last.p].children, "w:pPr") = 0
    /\ tree = before


\* C4: from an empty <w:pBdr>, or none, whatever the order in which the
\* sides are created, the children of <w:pBdr> are in the order top, left,
\* bottom, right, each at most once.
C4_SidesInSchemaOrder ==
    \A p \in Pars :
        \A i, j \in 1..Len(PBdrChildren(tree[p])) :
            i < j => TagIndex(PBdrChildren(tree[p])[i].tag)
                        < TagIndex(PBdrChildren(tree[p])[j].tag)

\* the four sides exist and top was created last, after right, bottom and left
C4_Witness ==
    /\ last.op = "create" /\ last.side = "top" /\ ~last.existed
    /\ Len(PBdrChildren(before[last.p])) = 3
    /\ Len(PBdrChildren(tree[last.p])) = 4
    /\ [i \in 1..4 |-> PBdrChildren(tree[last.p])[i].tag] = CT_PBdr_tag_seq

\* C5: every side that has an element has its four required attributes,
\* after any sequence of property writes and side assignments.
C5_SidesAbsentOrPopulated ==
    \A p \in Pars, side \in SideNames :
        HasSide(tree[p], side) => Populated(tree[p], side)

\* C6: a write of BorderSide.val stores the text exactly when the value is
\* a string among ST_BorderValue._members; any other string raises
\* ValueError, any other value TypeError, and w:val is then as it was; no
\* side ever carries a w:val outside the members.
C6_OnlyMembersStored ==
    /\ \A p \in Pars, side \in SideNames :
            (HasSide(tree[p], side) /\ "w:val" \in DOMAIN SideAttrs(tree[p], side))
                => SideAttrs(tree[p], side)["w:val"] \in ST_BorderValue_members
    /\ (last.op = "write" /\ last.prop = "val")
        => IF last.value.t = "str" /\ last.value.s \in ST_BorderValue_members
           THEN /\ last.ret = Ok(None)
                /\ SideAttrs(tree[last.p], last.side)["w:val"] = last.value.s
           ELSE /\ last.ret = Raise(IF last.value.t = "str" THEN "ValueError"
                                    ELSE "TypeError")
                /\ IF last.existed
                   THEN SideAttrs(tree[last.p], last.side)
                            = SideAttrs(before[last.p], last.side)
                   ELSE "w:val" \notin DOMAIN SideAttrs(tree[last.p], last.side)

\* "Dotted" was written to a side that had a w:val, which it keeps
C6_Witness ==
    /\ last.op = "write" /\ last.prop = "val" /\ last.value = PyStr("Dotted")
    /\ last.ret = Raise("ValueError") /\ last.existed
    /\ SideAttrs(tree[last.p], last.side)["w:val"] \in ST_BorderValue_members

\* C7: border.X = src, where src has its required attributes and no
\* w:shadow and side X had no w:shadow, leaves X without w:shadow, and its
\* shadow reads None.
C7_NoShadowFabricated ==
    (/\ last.op = "assign" /\ last.src # None
     /\ Populated(before[last.src.p], last.src.side)
     /\ "w:shadow" \notin DOMAIN SideAttrs(before[last.src.p], last.src.side)
     /\ last.existed => "w:shadow" \notin DOMAIN SideAttrs(before[last.p], last.side))
        => /\ HasSide(tree[last.p], last.side)
                => "w:shadow" \notin DOMAIN SideAttrs(tree[last.p], last.side)
           /\ ValueOf(tree, Proxy(last.p, last.side), "shadow") = Ok(None)

\* a side without shadow was copied to a side that did not exist, which now
\* has its style and no shadow
C7_Witness ==
    /\ last.op = "assign" /\ last.src # None /\ last.ret = Ok(None) /\ ~last.existed
    /\ copied[last.p][last.side] = last.src
    /\ "w:shadow" \notin DOMAIN SideAttrs(before[last.src.p], last.src.side)
    /\ ValueOf(tree, Proxy(last.p, last.side), "val") = ValueOf(before, last.src, "val")
    /\ "w:shadow" \notin DOMAIN SideAttrs(tree[last.p], last.side)

\* C8: once side A was copied to another side B, a write to the size of A
\* leaves the element of B, all its attributes, as it was.
C8_CopyIndependent ==
    (last.op = "write" /\ last.prop = "sz")
        => \A p \in Pars, side \in SideNames :
              (copied[p][side] = Proxy(last.p, last.side) /\ Proxy(p, side) # copied[p][side])
                  => /\ HasSide(tree[p], side)
                     /\ SideAttrs(tree[p], side) = SideAttrs(before[p], side)
                     /\ \A i \in 1..Len(Props) :
                            ValueOf(tree, Proxy(p, side), Props[i])
                                = ValueOf(before, Proxy(p, side), Props[i])

\* the left side of p2 was copied to a side of p1 and then given another
\* size, which the side of p1 did not follow
C8_Witness ==
    /\ last.op = "write" /\ last.prop = "sz" /\ last.ret = Ok(None) /\ last.p = "p2"
    /\ \E side \in SideNames :
          /\ copied["p1"][side] = Proxy("p2", last.side)
          /\ ValueOf(tree, Proxy("p1", side), "sz") = ValueOf(before, Proxy("p2", last.side), "sz")
          /\ ValueOf(tree, Proxy("p1", side), "sz") # ValueOf(tree, Proxy("p2", last.side), "sz")


\* the descriptors C9 names, and the range it gives for each
C9_Descriptors ==
    {"XsdInt", "XsdUnsignedInt", "XsdUnsignedLong", "XsdLong", "ST_CoordinateUnqualified",
     "ST_Coordinate", "ST_PositiveCoordinate"}

C9_Range(cls) ==
    CASE cls = "XsdInt" ->
            [min |-> Big(TRUE, <<2, 1, 4, 7, 4, 8, 3, 6, 4, 8>>),
             max |-> Big(FALSE, <<2, 1, 4, 7, 4, 8, 3, 6, 4, 7>>)]
      [] cls = "XsdUnsignedInt" ->
            [min |-> Big(FALSE, <<0>>),
             max |-> Big(FALSE, <<4, 2, 9, 4, 9, 6, 7, 2, 9, 5>>)]
      [] cls = "XsdUnsignedLong" ->
            [min |-> Big(FALSE, <<0>>),
             max |-> Big(FALSE, <<1, 8, 4, 4, 6, 7, 4, 4, 0, 7, 3, 7, 0, 9, 5, 5, 1, 6, 1, 5>>)]
      [] cls = "XsdLong" ->
            [min |-> Big(TRUE, <<9, 2, 2, 3, 3, 7, 2, 0, 3, 6, 8, 5, 4, 7, 7, 5, 8, 0, 8>>),
             max |-> Big(FALSE, <<9, 2, 2, 3, 3, 7, 2, 0, 3, 6, 8, 5, 4, 7, 7, 5, 8, 0, 7>>)]
      [] cls = "ST_CoordinateUnqualified" ->
            [min |-> Big(TRUE, <<2, 7, 2, 7, 3, 0, 4, 2, 3, 2, 9, 6, 0, 0>>),
             max |-> Big(FALSE, <<2, 7, 2, 7, 3, 0, 4, 2, 3, 1, 6, 9, 0, 0>>)]
      [] cls = "ST_Coordinate" ->
            [min |-> Big(TRUE, <<2, 7, 2, 7, 3, 0, 4, 2, 3, 2, 9, 6, 0, 0>>),
             max |-> Big(FALSE, <<2, 7, 2, 7, 3, 0, 4, 2, 3, 1, 6, 9, 0, 0>>)]
      [] cls = "ST_PositiveCoordinate" ->
            [min |-> Big(FALSE, <<0>>),
             max |-> Big(FALSE, <<2, 7, 2, 7, 3, 0, 4, 2, 3, 1, 6, 9, 0, 0>>)]

\* C9: validate of a bounded integer descriptor accepts an int exactly when
\* it lies between the descriptor's min and max, both included, raises
\* ValueError for any other int, and to_xml gives text only for a value that
\* validate accepts.
C9_RangeEnforced ==
    (tcall.phase \in {"validated", "rendered", "parsed"} /\ tcall.cls \in C9_Descriptors)
        => /\ IsInstanceInt(tcall.value)
                => tcall.valid =
                      (IF \/ IntLt(AsInt(tcall.value), C9_Range(tcall.cls).min)
                          \/ IntLt(C9_Range(tcall.cls).max, AsInt(tcall.value))
                       THEN "ValueError" ELSE "ok")
           /\ tcall.phase \in {"rendered", "parsed"}
                => (IsOk(tcall.xml) <=> tcall.valid = "ok")
           /\ (tcall.phase \in {"rendered", "parsed"} /\ tcall.valid # "ok")
                => tcall.xml = Raise(tcall.valid)

\* max + 1 of ST_Coordinate was refused, by validate and by to_xml
C9_Witness ==
    /\ tcall.phase = "rendered" /\ tcall.cls = "ST_Coordinate"
    /\ tcall.value = IntSucc(C9_Range("ST_Coordinate").max)
    /\ tcall.valid = "ValueError"
    /\ ~IsOk(tcall.xml)

\* C10 as stated: for every descriptor, the length descriptors included, and
\* every value that validate accepts, from_xml(to_xml(v)) == v.
C10_RoundTripOfEveryValue ==
    tcall.phase = "parsed" => (IsOk(tcall.back) /\ PyEq(tcall.back.v, tcall.value))

\* the EMU in the smallest length that the text of a length descriptor and
\* an EMU integer both express exactly: a half-point, a point, a twip, two
\* eighths of a point
C10_Unit(cls) ==
    CASE cls = "ST_HpsMeasure" -> 6350
      [] cls = "ST_PtsMeasure" -> EMUS_PER_PT
      [] cls \in {"ST_TwipsMeasure", "ST_SignedTwipsMeasure"} -> EMUS_PER_TWIP
      [] cls = "ST_EighthsOfPointMeasure" -> 3175

\* the values whose round trip is exact: of an integer descriptor, ints that
\* are not bools; of a length descriptor, whole numbers of its unit
C10_Exact(cls, value) ==
    /\ cls \in IntTypes => value.t = "int"
    /\ cls \in LengthTypes => IntOf(value) % C10_Unit(cls) = 0

\* C10, amended: from_xml(to_xml(v)) == v for every value v that validate
\* accepts, provided that v is not a bool where the descriptor is an integer
\* one and that v is a whole number of the descriptor's unit where it is a
\* length.
C10_RoundTripOfExactValues ==
    (tcall.phase = "parsed" /\ C10_Exact(tcall.cls, tcall.value))
        => (IsOk(tcall.back) /\ PyEq(tcall.back.v, tcall.value))

\* 19050 EMU, three half-points, went through ST_HpsMeasure as "3"
C10_Witness ==
    /\ tcall.phase = "parsed" /\ tcall.cls = "ST_HpsMeasure"
    /\ tcall.value = PyInt(19050)
    /\ tcall.xml = Ok(<<"3">>)
    /\ tcall.back = Ok(PyInt(19050))


\* C11: whatever value from_xml returns for a text, the validate of the same
\* descriptor accepts: "auto" of ST_HexColor, negative literals of the
\* unsigned descriptors and non-members of the enumerations included.
C11_ParsedValueValidates ==
    tcall.phase = "checked" => tcall.valid = "ok"


\* C12 as stated: ST_HpsMeasure.to_xml of the length 914400 EMU is "1440".
C12_InchRendersAs1440 ==
    (tcall.phase \in {"rendered", "parsed"} /\ tcall.cls = "ST_HpsMeasure"
        /\ tcall.value = PyInt(914400))
        => tcall.xml = Ok(<<"1", "4", "4", "0">>)

\* C12, amended: ST_HpsMeasure.to_xml of the length 914400 EMU, which is 72
\* points, is "144".
C12_InchRendersAs144 ==
    (tcall.phase \in {"rendered", "parsed"} /\ tcall.cls = "ST_HpsMeasure"
        /\ tcall.value = PyInt(914400))
        => tcall.xml = Ok(<<"1", "4", "4">>)

\* 914400 EMU was rendered by ST_HpsMeasure, and the text read back
C12_Witness ==
    /\ tcall.phase = "parsed" /\ tcall.cls = "ST_HpsMeasure"
    /\ tcall.value = PyInt(914400)
    /\ tcall.valid = "ok"
    /\ tcall.back = Ok(PyInt(914400))


\* C13: a read of side X gives a proxy exactly when it leaves the slot of X
\* set, and gives one whenever the side had an element; an assignment to X
\* leaves the slot set; and a slot that is set stays set, whatever becomes
\* of the side's element: so once a proxy was produced every later read of
\* X gives the proxy of the slot, and a read that gave None has cached
\* nothing.
C13_ProxyCachedForGood ==
    /\ [](last.op = "read_side"
            => /\ last.ret = (IF cache[last.p][last.side]
                              THEN Ok(Proxy(last.p, last.side)) ELSE Ok(None))
               /\ last.existed => cache[last.p][last.side])
    /\ [](last.op = "assign" => cache[last.p][last.side])
    /\ [][\A p \in Pars, side \in SideNames : cache[p][side] => cache'[p][side]]_vars

\* a later read gave the proxy of a side that has no element: its slot had
\* been set, and the element removed or never made
C13_Witness ==
    /\ last.op = "read_side" /\ last.ret = Ok(Proxy(last.p, last.side))
    /\ ~last.existed
    /\ ~HasSide(tree[last.p], last.side)
    /\ nops = 2

\* a read gave a proxy, after one that gave None and the creation of the side
C13_WitnessAfterCreation ==
    /\ last.op = "read_side" /\ last.ret = Ok(Proxy(last.p, last.side))
    /\ last.existed /\ nops = 2
    /\ SideAttrs(tree[last.p], last.side) = NoAttrs


\* C14: a property write or a side assignment that raises leaves the tree
\* as it was before the call.
C14_ErrorLeavesTree ==
    (last.op \in {"write", "assign"} /\ ~IsOk(last.ret)) => tree = before

\* the tags of the children
Tags(children) == [i \in 1..Len(children) |-> children[i].tag]

\* C15: each paragraph has at most one <w:pPr>, its <w:pPr> at most one
\* <w:pBdr>, and the <w:pBdr> at most one child of each side tag; and a write
\* to a side that has an element makes no element.
C15_ChildrenUnique ==
    /\ \A p \in Pars :
          /\ CountTag(tree[p].children, "w:pPr") <= 1
          /\ \A i \in 1..Len(tree[p].children) :
                /\ CountTag(tree[p].children[i].children, "w:pBdr") <= 1
                /\ \A j \in 1..Len(tree[p].children[i].children) :
                      \A side \in SideNames :
                          CountTag(tree[p].children[i].children[j].children,
                                   SideTag(side)) <= 1
    /\ (last.op = "write" /\ last.existed)
          => /\ Tags(tree[last.p].children) = Tags(before[last.p].children)
             /\ Tags(PPrOf(tree[last.p]).children) = Tags(PPrOf(before[last.p]).children)
             /\ Tags(PBdrChildren(tree[last.p])) = Tags(PBdrChildren(before[last.p]))

\* a second write went to a side that the first write had made
C15_Witness ==
    /\ last.op = "write" /\ last.existed /\ last.ret = Ok(None) /\ nops = 2
    /\ DOMAIN SideAttrs(before[last.p], last.side) = {"w:val"}
    /\ DOMAIN SideAttrs(tree[last.p], last.side) = {"w:val", "w:sz"}
    /\ CountTag(PBdrChildren(tree[last.p]), SideTag(last.side)) = 1

============================================================================
